---- MODULE Spec2Model ----
(***************************************************************************)
(* Task tracker (scripts/utils.py, scripts/tasks.py): the markdown task    *)
(* parser, the due-date predicate and the command handlers of the CLI.     *)
(*                                                                         *)
(* Text.  A Python str is modelled as a sequence of tokens; a token is a   *)
(* TLA+ string standing for a fixed run of characters ("## ", "- [ ]",     *)
(* "**", a word, one emoji).  A document is the sequence of its lines,     *)
(* that is content.split('\n'): a document that ends with a newline has   *)
(* the empty line <<>> as its last line.  Regular expressions and str      *)
(* methods are evaluated on tokens the way Python evaluates them on        *)
(* characters.                                                             *)
(***************************************************************************)
EXTENDS Integers, Sequences, FiniteSets, TLC

(* ------------------------------------------------------------------ *)
(* Bounds                                                             *)
(* ------------------------------------------------------------------ *)

\* Longest document, in lines, that Init draws.
MaxLines == 3

\* Calls made in one behaviour.
MaxRuns == 1

(* ------------------------------------------------------------------ *)
(* Tokens                                                             *)
(* ------------------------------------------------------------------ *)

\* The emoji, named by code point.
RED == "U+1F534"
YELLOW == "U+1F7E1"
ORANGE == "U+1F7E0"
TEAM == "U+1F465"
WHITE == "U+26AA"
CHECK == "U+2705"
GREEN == "U+1F7E2"
CALENDAR == "U+1F4C5"
\* The date marker of a task line: U+1F5D3 followed by U+FE0F.
DATEMARK == "U+1F5D3,U+FE0F"
\* The em dash of the legacy task lines.
EMDASH == "U+2014"

\* Python's None where a str is expected (a sequence no text tokenises to).
None == << "<None>" >>
\* Python's None where a section key is expected.
NoSection == "<None>"

\* str.isspace on one token.
IsSpace(tok) == tok \in {" ", "  "}

\* str.lower on one token.
lower(tok) ==
    CASE tok = "Ship" -> "ship"
      [] tok = "Due:" -> "due:"
      [] tok = "Blocks:" -> "blocks:"
      [] tok = "Owner:" -> "owner:"
      [] tok = "Bob" -> "bob"
      [] tok = "Sarah" -> "sarah"
      [] OTHER -> tok

\* str.lower
str_lower(s) == [i \in 1..Len(s) |-> lower(s[i])]

\* str.startswith
startswith(s, prefix) ==
    Len(s) >= Len(prefix) /\ SubSeq(s, 1, Len(prefix)) = prefix

\* Python's `q in s` on str: q occurs in s as a contiguous run.
str_in(q, s) ==
    \E i \in 0..(Len(s) - Len(q)) : SubSeq(s, i + 1, i + Len(q)) = q

RECURSIVE lstrip(_)
\* str.lstrip
lstrip(s) == IF s # <<>> /\ IsSpace(Head(s)) THEN lstrip(Tail(s)) ELSE s

RECURSIVE rstrip(_)
\* str.rstrip
rstrip(s) ==
    IF s # <<>> /\ IsSpace(s[Len(s)]) THEN rstrip(SubSeq(s, 1, Len(s) - 1)) ELSE s

\* str.strip
strip(s) == lstrip(rstrip(s))

\* Python truthiness of an Optional[str]: None and '' are false.
Truthy(s) == s # None /\ s # <<>>

(* ------------------------------------------------------------------ *)
(* Dates (datetime.date, datetime.strptime)                           *)
(* ------------------------------------------------------------------ *)

\* The tokens of the shape \d{4}-\d{2}-\d{2}, with their digit fields.
DateShaped ==
    {"2025-12-31", "2026-01-09", "2026-01-10", "2026-01-11", "2026-01-12",
     "2026-01-13", "2026-01-14", "2026-01-15", "2026-01-16", "2026-01-17",
     "2026-01-18", "2026-01-19", "2026-01-20", "2026-01-25", "2026-01-26",
     "2026-02-29", "2026-13-01", "2026-01-32", "2026-00-10", "2028-02-29"}

DateFields(tok) ==
    CASE tok = "2025-12-31" -> <<2025, 12, 31>>
      [] tok = "2026-01-09" -> <<2026, 1, 9>>
      [] tok = "2026-01-10" -> <<2026, 1, 10>>
      [] tok = "2026-01-11" -> <<2026, 1, 11>>
      [] tok = "2026-01-12" -> <<2026, 1, 12>>
      [] tok = "2026-01-13" -> <<2026, 1, 13>>
      [] tok = "2026-01-14" -> <<2026, 1, 14>>
      [] tok = "2026-01-15" -> <<2026, 1, 15>>
      [] tok = "2026-01-16" -> <<2026, 1, 16>>
      [] tok = "2026-01-17" -> <<2026, 1, 17>>
      [] tok = "2026-01-18" -> <<2026, 1, 18>>
      [] tok = "2026-01-19" -> <<2026, 1, 19>>
      [] tok = "2026-01-20" -> <<2026, 1, 20>>
      [] tok = "2026-01-25" -> <<2026, 1, 25>>
      [] tok = "2026-01-26" -> <<2026, 1, 26>>
      [] tok = "2026-02-29" -> <<2026, 2, 29>>
      [] tok = "2026-13-01" -> <<2026, 13, 1>>
      [] tok = "2026-01-32" -> <<2026, 1, 32>>
      [] tok = "2026-00-10" -> <<2026, 0, 10>>
      [] tok = "2028-02-29" -> <<2028, 2, 29>>

\* datetime: leap year.
is_leap(y) == y % 4 = 0 /\ (y % 100 # 0 \/ y % 400 = 0)

\* datetime: days in month m of year y.
days_in_month(y, m) ==
    IF m = 2 THEN (IF is_leap(y) THEN 29 ELSE 28)
    ELSE IF m \in {4, 6, 9, 11} THEN 30 ELSE 31

RECURSIVE days_before_month(_, _)
\* datetime: days of year y before the first of month m.
days_before_month(y, m) ==
    IF m = 1 THEN 0 ELSE days_before_month(y, m - 1) + days_in_month(y, m - 1)

\* datetime: days before January 1st of year y.
days_before_year(y) ==
    (y - 1) * 365 + ((y - 1) \div 4) - ((y - 1) \div 100) + ((y - 1) \div 400)

\* date.toordinal: a date is modelled by its proleptic Gregorian ordinal.
toordinal(y, m, d) == days_before_year(y) + days_before_month(y, m) + d

\* date.isoweekday: Monday is 1, Sunday is 7.
isoweekday(ord) == ((ord + 6) % 7) + 1

\* date.weekday: Monday is 0, Sunday is 6.
weekday(ord) == (ord + 6) % 7

\* datetime.strptime(s, '%Y-%m-%d') raises ValueError.
strptime_fails(s) ==
    \/ s = None
    \/ Len(s) # 1
    \/ s[1] \notin DateShaped
    \/ LET f == DateFields(s[1])
       IN  \/ f[2] \notin 1..12
           \/ f[3] \notin 1..days_in_month(f[1], f[2])

\* datetime.strptime(s, '%Y-%m-%d').date(), for a string that parses.
strptime_date(s) ==
    LET f == DateFields(s[1]) IN toordinal(f[1], f[2], f[3])

(* ------------------------------------------------------------------ *)
(* check_due_date                                                     *)
(* ------------------------------------------------------------------ *)

\* check_due_date(due, check_type), run on the day `now`.
check_due_date(due, check_type, now) ==
    IF ~Truthy(due) THEN check_type = "today"
    ELSE LET week_end == now + (6 - weekday(now))
         IN  IF strptime_fails(due) THEN FALSE
             ELSE LET due_date == strptime_date(due)
                  IN  CASE check_type = "today" -> due_date <= now
                        [] check_type = "this-week" -> due_date <= week_end
                        [] check_type = "overdue" -> due_date < now
                        [] OTHER -> FALSE

(* ------------------------------------------------------------------ *)
(* parse_tasks                                                        *)
(* ------------------------------------------------------------------ *)

\* The character class of the section-header pattern of each format.
header_class(format) ==
    IF format = "obsidian"
    THEN {RED, YELLOW, ORANGE, TEAM, WHITE, CHECK}
    ELSE {RED, YELLOW, GREEN, CALENDAR, CHECK}

\* re.match of the section-header pattern: '## ', one emoji of the class, a
\* space, and at least one more character.
section_match(line, format) ==
    /\ Len(line) >= 4
    /\ line[1] = "## "
    /\ line[2] \in header_class(format)
    /\ line[3] = " "

\* mapping.get(emoji): the bucket of a section emoji, None when it has none.
mapping_get(personal, emoji) ==
    CASE emoji = RED -> "q1"
      [] emoji = YELLOW -> "q2"
      [] emoji = ORANGE -> "q3"
      [] emoji = TEAM -> (IF personal THEN NoSection ELSE "team")
      [] emoji = WHITE -> "backlog"
      [] emoji = CHECK -> "done"
      [] OTHER -> NoSection

\* Index of the '**' that closes the title: the first one after at least one
\* token of title (0: none).
title_end(line) ==
    LET ends == {k \in 5..Len(line) : line[k] = "**"}
    IN  IF ends = {} THEN 0 ELSE CHOOSE k \in ends : \A j \in ends : k <= j

\* re.match(r'^- \[([ x])\] \*\*(.+?)\*\*(.*)$', line)
task_match(line) ==
    /\ Len(line) >= 5
    /\ line[1] \in {"- [ ]", "- [x]"}
    /\ line[2] = " "
    /\ line[3] = "**"
    /\ title_end(line) # 0

\* Position of the first marker token in s that is directly followed by a
\* token of `values` (0: none): re.search(marker + '(' + values + ')', s).
search_after(s, marker, values) ==
    LET hits == {i \in 1..(Len(s) - 1) : s[i] = marker /\ s[i + 1] \in values}
    IN  IF hits = {} THEN 0 ELSE CHOOSE i \in hits : \A j \in hits : i <= j

RECURSIVE nonspace_run(_, _)
\* The run of non-whitespace tokens of s that starts at index i: [^\s]+
nonspace_run(s, i) ==
    IF i > Len(s) \/ IsSpace(s[i]) THEN <<>>
    ELSE <<s[i]>> \o nonspace_run(s, i + 1)

\* re.search(field + r'([^\s]+)', rest).group(1), None without a match.
field_value(rest, field) ==
    LET hits == {i \in 1..(Len(rest) - 1) : rest[i] = field /\ ~IsSpace(rest[i + 1])}
    IN  IF hits = {} THEN None
        ELSE nonspace_run(rest, (CHOOSE i \in hits : \A j \in hits : i <= j) + 1)

RECURSIVE skip_space(_, _)
\* Index of the first non-whitespace token of s at or after i: \s*
skip_space(s, i) ==
    IF i <= Len(s) /\ IsSpace(s[i]) THEN skip_space(s, i + 1) ELSE i

\* re.search(r'Due:\s*([^\s<em dash>]+)', rest).group(1), None without a match.
legacy_due(rest) ==
    LET ok(i) == /\ rest[i] = "Due:"
                 /\ skip_space(rest, i + 1) <= Len(rest)
                 /\ rest[skip_space(rest, i + 1)] # EMDASH
        hits == {i \in 1..Len(rest) : ok(i)}
    IN  IF hits = {} THEN None
        ELSE LET i == CHOOSE i \in hits : \A j \in hits : i <= j
             IN  <<rest[skip_space(rest, i + 1)]>>

\* The due string of a task line's trailing text.
inline_due(rest, format) ==
    IF format = "obsidian"
    THEN LET i == search_after(rest, DATEMARK, DateShaped)
         IN  IF i = 0 THEN None ELSE <<rest[i + 1]>>
    ELSE legacy_due(rest)

\* The area of a task line's trailing text (the obsidian format only).
inline_area(rest, format) ==
    IF format = "obsidian" THEN field_value(rest, "area::") ELSE None

\* The record a task line parses to.
new_task(line, current_section, format) ==
    LET k == title_end(line)
        rest == strip(SubSeq(line, k + 1, Len(line)))
    IN  [title |-> strip(SubSeq(line, 4, k - 1)),
         done |-> line[1] = "- [x]",
         section |-> current_section,
         due |-> inline_due(rest, format),
         area |-> inline_area(rest, format),
         raw_line |-> line,
         blocks |-> None]

\* The result dict before the first line.  `all` holds the task records; the
\* other lists hold indices into `all`, as Python's lists hold references to
\* the same dict objects.
empty_result ==
    [q1 |-> <<>>, q2 |-> <<>>, q3 |-> <<>>, team |-> <<>>, backlog |-> <<>>,
     done |-> <<>>, due_today |-> <<>>, all |-> <<>>]

\* The task-line branch of the loop body.
parse_task_line(st, line, format, today) ==
    LET task == new_task(line, st.current_section, format)
        idx == Len(st.result.all) + 1
        r1 == [st.result EXCEPT !.all = Append(@, task)]
        r2 == IF task.done THEN [r1 EXCEPT !.done = Append(@, idx)]
              ELSE IF st.current_section # NoSection
                   THEN [r1 EXCEPT ![st.current_section] = Append(@, idx)]
                   ELSE r1
        r3 == IF /\ Truthy(task.due)
                 /\ ~task.done
                 /\ ~strptime_fails(task.due)
                 /\ strptime_date(task.due) = today
              THEN [r2 EXCEPT !.due_today = Append(@, idx)]
              ELSE r2
    IN  [st EXCEPT !.result = r3, !.current_task = idx]

\* The continuation-line branch of the loop body.
parse_continuation(st, line, format) ==
    LET meta_line == strip(Tail(strip(line)))
        value == strip(Tail(meta_line))
        cur == st.result.all[st.current_task]
    IN  IF format = "legacy" /\ meta_line # <<>>
        THEN IF lower(meta_line[1]) = "due:"
             THEN IF ~Truthy(cur.due)
                  THEN [st EXCEPT !.result.all[st.current_task].due = value]
                  ELSE st
             ELSE IF lower(meta_line[1]) = "blocks:"
                  THEN [st EXCEPT !.result.all[st.current_task].blocks = value]
                  ELSE st
        ELSE st

\* One pass of the loop body of parse_tasks.
parse_line(st, line, personal, format, today) ==
    IF startswith(line, <<"## ">>)
    THEN IF section_match(line, format)
         THEN [st EXCEPT !.current_section = mapping_get(personal, line[2])]
         ELSE st
    ELSE IF task_match(line)
         THEN parse_task_line(st, line, format, today)
         ELSE IF st.current_task # 0 /\ startswith(line, <<"  - ">>)
              THEN parse_continuation(st, line, format)
              ELSE st

RECURSIVE parse_loop(_, _, _, _, _, _)
\* The loop of parse_tasks over lines i..Len(lines).
parse_loop(st, lines, i, personal, format, today) ==
    IF i > Len(lines) THEN st
    ELSE parse_loop(parse_line(st, lines[i], personal, format, today),
                    lines, i + 1, personal, format, today)

\* parse_tasks(content, personal, format), run on the day `today`.
parse_tasks(content, personal, format, today) ==
    parse_loop([result |-> empty_result, current_section |-> NoSection,
                current_task |-> 0],
               content, 1, personal, format, today).result

\* The task records of one list of a result.
bucket(result, key) == [i \in 1..Len(result[key]) |-> result.all[result[key][i]]]

(* ------------------------------------------------------------------ *)
(* Documents                                                          *)
(* ------------------------------------------------------------------ *)

\* The lines documents are made of.
H_Q1 == <<"## ", RED, " ", "Q1", ": ", "Urgent">>
H_MUST == <<"## ", RED, " ", "Must", " ", "Do", " ", "Today">>
H_Q2 == <<"## ", YELLOW, " ", "Q2", ": ", "Important">>
H_BACKLOG == <<"## ", WHITE, " ", "Backlog">>
H_TEAM == <<"## ", TEAM, " ", "Team", " ", "Tasks">>
H_DONE == <<"## ", CHECK, " ", "Done">>
H_LOW == <<"## ", GREEN, " ", "Low">>
H_NOTES == <<"## ", "Notes">>
T_SHIP == <<"- [ ]", " ", "**", "Ship", " ", "report", "**">>
T_INVOICE ==
    <<"- [ ]", " ", "**", "Ship", " ", "invoice", "**", " ", DATEMARK,
      "2026-01-15", " ", "area::", "Sales">>
T_OLD == <<"- [x]", " ", "**", "Old", " ", "report", "**">>
T_CALL ==
    <<"- [ ]", " ", "**", "Call", " ", "Bob", "**", " ", EMDASH, " ", "Due:",
      " ", "2026-01-15">>
C_DUE == <<"  - ", "due:", " ", "2026-01-20">>
C_BLOCKS == <<"  - ", "blocks:", " ", "sarah">>
C_BLOCKS2 == <<"  - ", "Blocks:", " ", "bob">>
C_OWNER == <<"  - ", "owner:", " ", "alice">>
BLANK == <<>>
DIVIDER == <<"---">>
PLACEHOLDER == <<"_Move completed items here during daily standup_">>
\* A quoted copy of a task line: no task line itself, it holds one.
Q_SHIP == <<"> ", "- [ ]", " ", "**", "Ship", " ", "report", "**">>

\* The lines of the documents the parser is run on.
ParseLines ==
    {H_Q1, H_TEAM, H_DONE, H_LOW, H_NOTES, T_SHIP, T_INVOICE, T_OLD, T_CALL,
     C_DUE, C_BLOCKS, C_BLOCKS2, C_OWNER, BLANK}

\* All sequences over S of length 1..n.
SeqsUpTo(S, n) == UNION {[1..k -> S] : k \in 1..n}

ParseDocuments == SeqsUpTo(ParseLines, MaxLines)

\* The days the clock may show: a week, Monday to Sunday.
Clock == {toordinal(2026, 1, d) : d \in 12..18}

(* ------------------------------------------------------------------ *)
(* State                                                              *)
(* ------------------------------------------------------------------ *)

VARIABLES
    tasks_path, \* the path at which a tasks document exists
    content,    \* the text of that document, as its lines
    archive,    \* the text of the quarter's archive file, or Missing
    today,      \* datetime.now().date()
    runs,       \* how many calls have been made
    last        \* the last call: its name, its arguments and what it did

vars == <<tasks_path, content, archive, today, runs, last>>

NoCall == [op |-> "none"]

\* A file that does not exist (a text no file has).
Missing == << << "<missing>" >> >>

\* utils.py: the three places a tasks document may be at.
OBSIDIAN_WORK == "~/Obsidian/03-Areas/ShapeScale/Work Tasks.md"
OBSIDIAN_PERSONAL == "~/Obsidian/03-Areas/Personal/Personal Tasks.md"
LEGACY_WORK == "~/clawd/memory/work/TASKS.md"

(* ------------------------------------------------------------------ *)
(* utils.py: get_tasks_file, load_tasks                               *)
(* ------------------------------------------------------------------ *)

\* Path.exists(): one tasks document exists, at tasks_path.
exists(path) == path = tasks_path

\* get_tasks_file(personal, force_legacy): a tuple (file_path, format).
get_tasks_file(personal, force_legacy) ==
    LET obsidian_file == IF personal THEN OBSIDIAN_PERSONAL ELSE OBSIDIAN_WORK
    IN  IF force_legacy
        THEN [type |-> "tuple", path |-> LEGACY_WORK, format |-> "legacy"]
        ELSE IF exists(obsidian_file)
             THEN [type |-> "tuple", path |-> obsidian_file, format |-> "obsidian"]
             ELSE IF ~personal /\ exists(LEGACY_WORK)
                  THEN [type |-> "tuple", path |-> LEGACY_WORK, format |-> "legacy"]
                  ELSE [type |-> "tuple", path |-> obsidian_file,
                        format |-> "obsidian"]

\* Whether a Python value has the method read_text: a Path has, a tuple has
\* not (calling it raises AttributeError).
has_read_text(value) == value.type = "Path"

\* load_tasks(personal): exit(1) when the file is missing, else the parsed
\* tasks.
load_tasks(personal) ==
    LET tf == get_tasks_file(personal, FALSE)
    IN  IF ~exists(tf.path)
        THEN [exit |-> TRUE, tasks |-> empty_result]
        ELSE [exit |-> FALSE,
              tasks |-> parse_tasks(content, personal, tf.format, today)]

(* ------------------------------------------------------------------ *)
(* tasks.py: list_tasks, show_blockers                                *)
(* ------------------------------------------------------------------ *)

\* An option that was not given on the command line.
NotGiven == "<None>"

\* priority_map.get(priority)
priority_map(priority) ==
    CASE priority = "high" -> "q1"
      [] priority = "medium" -> "q2"
      [] priority = "low" -> "backlog"
      [] OTHER -> NoSection

\* s.lower().replace('-', ' ')
normalize_status(s) ==
    [i \in 1..Len(s) |-> IF s[i] = "-" THEN " " ELSE lower(s[i])]

\* The tasks list_tasks prints: the base set, then the status filter, then
\* the due filter.
list_filter(tasks_data, priority, status, due) ==
    LET base == IF priority # NotGiven /\ priority_map(priority) # NoSection
                THEN bucket(tasks_data, priority_map(priority))
                ELSE tasks_data.all
        status_of(t) == IF "status" \in DOMAIN t THEN t.status ELSE <<>>
        has_status(t) == normalize_status(status_of(t)) = normalize_status(status)
        by_status == IF status # None THEN SelectSeq(base, has_status) ELSE base
        is_due(t) == check_due_date(t.due, due, today)
    IN  IF due # NotGiven THEN SelectSeq(by_status, is_due) ELSE by_status

\* list_tasks(args)
list_tasks(personal, priority, status, due) ==
    /\ runs < MaxRuns
    /\ runs' = runs + 1
    /\ LET loaded == load_tasks(personal)
           filtered == list_filter(loaded.tasks, priority, status, due)
       IN  last' = [op |-> "list_tasks", personal |-> personal,
                    priority |-> priority, status |-> status, due |-> due,
                    outcome |-> IF loaded.exit THEN "exit 1"
                                ELSE IF filtered = <<>> THEN "no tasks found"
                                ELSE "listed",
                    printed |-> IF loaded.exit THEN <<>> ELSE filtered]
    /\ UNCHANGED <<tasks_path, content, archive, today>>

\* The tasks show_blockers prints.
blockers_filter(tasks_data, person) ==
    LET blocking(t) == Truthy(t.blocks) /\ ~t.done
        blocks_person(t) == str_in(str_lower(person), str_lower(t.blocks))
        blockers == SelectSeq(tasks_data.all, blocking)
    IN  IF person # None THEN SelectSeq(blockers, blocks_person) ELSE blockers

\* show_blockers(args)
show_blockers(personal, person) ==
    /\ runs < MaxRuns
    /\ runs' = runs + 1
    /\ LET loaded == load_tasks(personal)
           blockers == blockers_filter(loaded.tasks, person)
       IN  last' = [op |-> "show_blockers", personal |-> personal,
                    person |-> person,
                    outcome |-> IF loaded.exit THEN "exit 1"
                                ELSE IF blockers = <<>> THEN "no blocking tasks"
                                ELSE "listed",
                    printed |-> IF loaded.exit THEN <<>> ELSE blockers]
    /\ UNCHANGED <<tasks_path, content, archive, today>>

(* ------------------------------------------------------------------ *)
(* tasks.py: add_task, done_task, archive_done                        *)
(* ------------------------------------------------------------------ *)

\* a + b on texts given as lines: the last line of a runs into the first
\* line of b.
text_concat(a, b) ==
    SubSeq(a, 1, Len(a) - 1) \o <<a[Len(a)] \o b[1]>> \o Tail(b)

RECURSIVE text_rstrip(_)
\* str.rstrip on a text of at least one line: trailing whitespace goes,
\* line breaks included.
text_rstrip(lines) ==
    IF Len(lines) = 1 THEN <<rstrip(lines[1])>>
    ELSE IF rstrip(lines[Len(lines)]) = <<>>
         THEN text_rstrip(SubSeq(lines, 1, Len(lines) - 1))
         ELSE SubSeq(lines, 1, Len(lines) - 1) \o <<rstrip(lines[Len(lines)])>>

\* The least element of a non-empty set of numbers.
Min(S) == CHOOSE x \in S : \A y \in S : x <= y

\* The elements of a sequence, as a set.
Range(s) == {s[i] : i \in 1..Len(s)}

\* A line that the alternatives '\n## ' and '\n---' stop before.
is_boundary(line) == startswith(line, <<"## ">>) \/ startswith(line, <<"---">>)

\* The last line of the span that a lazy '.*?' starting at line `from`
\* takes before (\n## |\n---|\Z).
span_end(lines, from) ==
    Min({j \in from..Len(lines) : j = Len(lines) \/ is_boundary(lines[j + 1])})

\* The header text add_task looks for.
priority_section(priority) ==
    CASE priority = "high" -> <<RED, " ", "Q1">>
      [] priority = "low" -> <<WHITE, " ", "Backlog">>
      [] OTHER -> <<YELLOW, " ", "Q2">>

\* The lines of the task entry add_task builds.
task_entry(title, due, owner, area) ==
    <<(<<"- [ ]", " ", "**">> \o title \o <<"**">>)>>
        \o (IF Truthy(due) THEN <<(<<"  ", DATEMARK>> \o due)>> ELSE <<>>)
        \o (IF Truthy(owner) /\ owner # <<"martin">> /\ owner # <<"me">>
            THEN <<(<<"  ", "owner::", " ">> \o owner)>> ELSE <<>>)
        \o (IF Truthy(area) THEN <<(<<"  ", "area::", " ">> \o area)>> ELSE <<>>)

\* The lines in which re.search can start the section pattern: they hold
\* the header text and a line break follows them.
section_hits(text, priority) ==
    {h \in 1..(Len(text) - 1) :
        str_in(<<"## ">> \o priority_section(priority), text[h])}

\* new_content of add_task: the entry spliced in after the rstripped body of
\* the span that follows the header line.
insert_task(text, priority, entry) ==
    LET h == Min(section_hits(text, priority))
        j == span_end(text, h + 1)
    IN  SubSeq(text, 1, h) \o text_rstrip(SubSeq(text, h + 1, j)) \o <<BLANK>>
            \o entry \o <<BLANK>> \o SubSeq(text, j + 1, Len(text))

\* add_task(args)
add_task(personal, title, priority, due, owner, area) ==
    /\ runs < MaxRuns
    /\ runs' = runs + 1
    /\ LET tasks_file == get_tasks_file(personal, FALSE)
           call == [op |-> "add_task", personal |-> personal, title |-> title,
                    priority |-> priority, due |-> due, owner |-> owner,
                    area |-> area, before |-> content, archive_before |-> archive]
       IN  IF ~has_read_text(tasks_file)
           THEN /\ last' = call @@ [outcome |-> "AttributeError"]
                /\ UNCHANGED <<tasks_path, content, archive, today>>
           ELSE IF ~exists(tasks_file.path)
           THEN /\ last' = call @@ [outcome |-> "FileNotFoundError"]
                /\ UNCHANGED <<tasks_path, content, archive, today>>
           ELSE IF section_hits(content, priority) # {}
           THEN /\ content' = insert_task(content, priority,
                                          task_entry(title, due, owner, area))
                /\ last' = call @@ [outcome |-> "added"]
                /\ UNCHANGED <<tasks_path, archive, today>>
           ELSE /\ last' = call @@ [outcome |-> "section not found"]
                /\ UNCHANGED <<tasks_path, content, archive, today>>

\* The not-done tasks (indices into `all`) whose lowered title holds the
\* lowered query.
done_matches(tasks_data, query) ==
    LET S == {k \in 1..Len(tasks_data.all) :
                 /\ str_in(str_lower(query), str_lower(tasks_data.all[k].title))
                 /\ ~tasks_data.all[k].done}
        RECURSIVE Sorted(_)
        Sorted(T) == IF T = {} THEN <<>> ELSE <<Min(T)>> \o Sorted(T \ {Min(T)})
    IN  Sorted(S)

RECURSIVE str_replace(_, _, _)
\* str.replace(old, new) on one line: every occurrence, left to right.
str_replace(s, old, new) ==
    IF Len(s) < Len(old) \/ old = <<>> THEN s
    ELSE IF SubSeq(s, 1, Len(old)) = old
         THEN new \o str_replace(SubSeq(s, Len(old) + 1, Len(s)), old, new)
         ELSE <<Head(s)>> \o str_replace(Tail(s), old, new)

\* content.replace(old_line, new_line): old_line holds no line break, so
\* its occurrences lie within lines.
text_replace(text, old_line, new_line) ==
    [i \in 1..Len(text) |-> str_replace(text[i], old_line, new_line)]

\* done_task(args)
done_task(personal, query) ==
    /\ runs < MaxRuns
    /\ runs' = runs + 1
    /\ LET tasks_file == get_tasks_file(personal, FALSE)
           call == [op |-> "done_task", personal |-> personal, query |-> query,
                    before |-> content, archive_before |-> archive]
           tasks_data == parse_tasks(content, personal, "obsidian", today)
           matches == done_matches(tasks_data, query)
           task == tasks_data.all[matches[1]]
           old_line == task.raw_lines[1]
           new_line == str_replace(old_line, <<"- [ ]">>, <<"- [x]">>)
       IN  IF ~has_read_text(tasks_file)
           THEN /\ last' = call @@ [outcome |-> "AttributeError"]
                /\ UNCHANGED <<tasks_path, content, archive, today>>
           ELSE IF ~exists(tasks_file.path)
           THEN /\ last' = call @@ [outcome |-> "FileNotFoundError"]
                /\ UNCHANGED <<tasks_path, content, archive, today>>
           ELSE IF matches = <<>>
           THEN /\ last' = call @@ [outcome |-> "no matching task"]
                /\ UNCHANGED <<tasks_path, content, archive, today>>
           ELSE IF Len(matches) > 1
           THEN /\ last' = call @@ [outcome |-> "multiple matches"]
                /\ UNCHANGED <<tasks_path, content, archive, today>>
           ELSE IF "raw_lines" \notin DOMAIN task
           THEN /\ last' = call @@ [outcome |-> "KeyError"]
                /\ UNCHANGED <<tasks_path, content, archive, today>>
           ELSE /\ content' = text_replace(content, old_line, new_line)
                /\ last' = call @@ [outcome |-> "completed"]
                /\ UNCHANGED <<tasks_path, archive, today>>

\* datetime.now().strftime('%Y-%m-%d')
strftime(ord) ==
    CHOOSE d \in DateShaped :
        ~strptime_fails(<<d>>) /\ strptime_date(<<d>>) = ord

\* get_current_quarter(), from the year and month of the clock's date.
get_current_quarter(ord) ==
    LET f == DateFields(strftime(ord))
    IN  <<ToString(f[1]), "-Q", ToString(((f[2] - 1) \div 3) + 1)>>

\* archive_entry of archive_done, as lines: a blank line, the dated header,
\* a blank line, one line per done task, and the line break after the last.
archive_entry(done_tasks, personal, ord) ==
    <<BLANK,
      <<"## ", "Archived", " ", strftime(ord), " ", "(",
        IF personal THEN "Personal" ELSE "Work", ")">>,
      BLANK>>
        \o [i \in 1..Len(done_tasks) |->
                <<"- ", CHECK, " ", "**">> \o done_tasks[i].title \o <<"**">>]
        \o <<BLANK>>

RECURSIVE reset_done(_, _)
\* re.sub of the done-section pattern over the text, searching from line
\* `from`: after the header text, through the first blank line, the span up
\* to the next boundary becomes the placeholder and a blank line.
reset_done(text, from) ==
    LET H == {h \in from..Len(text) : str_in(<<"## ", CHECK, " ", "Done">>, text[h])}
        h == Min(H)
        K == {k \in h..(Len(text) - 2) : text[k + 1] = BLANK}
        k == Min(K)
        j == span_end(text, k + 2)
    IN  IF H = {} THEN text
        ELSE IF K = {} THEN text
        ELSE SubSeq(text, 1, k + 1) \o <<PLACEHOLDER, BLANK, BLANK>>
                \o (IF j = Len(text) THEN <<>>
                    ELSE reset_done(SubSeq(text, j + 1, Len(text)), 2))

\* archive_done(args)
archive_done(personal) ==
    /\ runs < MaxRuns
    /\ runs' = runs + 1
    /\ LET tasks_file == get_tasks_file(personal, FALSE)
           call == [op |-> "archive_done", personal |-> personal,
                    before |-> content, archive_before |-> archive]
           tasks_data == parse_tasks(content, personal, "obsidian", today)
           done_tasks == bucket(tasks_data, "done")
           archive_content ==
               IF archive # Missing THEN archive
               ELSE <<(<<"# Task Archive - ">> \o get_current_quarter(today)), BLANK>>
       IN  IF ~has_read_text(tasks_file)
           THEN /\ last' = call @@ [outcome |-> "AttributeError"]
                /\ UNCHANGED <<tasks_path, content, archive, today>>
           ELSE IF ~exists(tasks_file.path)
           THEN /\ last' = call @@ [outcome |-> "FileNotFoundError"]
                /\ UNCHANGED <<tasks_path, content, archive, today>>
           ELSE IF done_tasks = <<>>
           THEN /\ last' = call @@ [outcome |-> "nothing to archive"]
                /\ UNCHANGED <<tasks_path, content, archive, today>>
           ELSE /\ archive' = text_concat(archive_content,
                                          archive_entry(done_tasks, personal, today))
                /\ content' = reset_done(content, 1)
                /\ last' = call @@ [outcome |-> "archived"]
                /\ UNCHANGED <<tasks_path, today>>

(* ------------------------------------------------------------------ *)
(* The command line                                                   *)
(* ------------------------------------------------------------------ *)

\* The lines of the documents the commands are run on.
CliLines ==
    {H_Q1, H_MUST, H_Q2, H_BACKLOG, H_DONE, T_SHIP, T_INVOICE, T_OLD,
     Q_SHIP, C_BLOCKS, BLANK, DIVIDER}

CliDocuments == SeqsUpTo(CliLines, MaxLines)

Titles == {<<"Ship", " ", "report">>, <<"Pay", " ", "rent">>}
Queries == {<<"ship">>, <<"Ship", " ", "report">>, <<"invoice">>, <<"rent">>}
Priorities == {"high", "medium", "low"}

Init ==
    /\ tasks_path \in {OBSIDIAN_WORK, OBSIDIAN_PERSONAL, LEGACY_WORK}
    /\ content \in CliDocuments
    /\ today = toordinal(2026, 1, 15)
    /\ archive \in {Missing,
                    <<(<<"# Task Archive - ">> \o get_current_quarter(today)), BLANK>>}
    /\ runs = 0
    /\ last = NoCall

Next ==
    \E personal \in BOOLEAN :
        \/ \E priority \in {NotGiven, "high", "low"},
              status \in {None, <<"todo">>},
              due \in {NotGiven, "today", "overdue"} :
                list_tasks(personal, priority, status, due)
        \/ \E person \in {None, <<"Sarah">>} : show_blockers(personal, person)
        \/ \E title \in Titles, priority \in Priorities,
              fields \in {<<None, None>>, <<(<<"2026-01-15">>), (<<"Sales">>)>>} :
                add_task(personal, title, priority, fields[1], <<"me">>, fields[2])
        \/ \E query \in Queries : done_task(personal, query)
        \/ archive_done(personal)

Spec == Init /\ [][Next]_vars

(* ------------------------------------------------------------------ *)
(* Properties of the commands                                         *)
(* ------------------------------------------------------------------ *)

\* The parse a command makes of a text: the dialect of the call, the
\* default format.
ParseOf(text) == parse_tasks(text, last.personal, "obsidian", today)

\* The bucket and the section emoji of a priority.
TargetBucket(priority) ==
    CASE priority = "high" -> "q1" [] priority = "medium" -> "q2"
      [] priority = "low" -> "backlog"

TargetEmoji(priority) ==
    CASE priority = "high" -> RED [] priority = "medium" -> YELLOW
      [] priority = "low" -> WHITE

SectionBuckets == {"q1", "q2", "q3", "team", "backlog", "done"}
PriorityBuckets == {"q1", "q2", "q3", "team", "backlog"}

\* How many not-done tasks with the given title a bucket of a result lists.
CountTitled(result, key, title) ==
    Cardinality({i \in 1..Len(result[key]) :
                    /\ result.all[result[key][i]].title = title
                    /\ ~result.all[result[key][i]].done})

\* C1: unless add_task reports 'section not found', parsing the document
\* it leaves shows one more not-done task titled T in the bucket of the
\* priority and no more of them in any other section bucket.
C1_InsertThenParse ==
    (last.op = "add_task" /\ last.outcome # "section not found") =>
        \A key \in SectionBuckets :
            CountTitled(ParseOf(content), key, last.title)
                = CountTitled(ParseOf(last.before), key, last.title)
                    + (IF key = TargetBucket(last.priority) THEN 1 ELSE 0)

\* The not-done tasks of a text whose title holds the query, case ignored.
Matching(text, query) ==
    {k \in 1..Len(ParseOf(text).all) :
        /\ str_in(str_lower(query), str_lower(ParseOf(text).all[k].title))
        /\ ~ParseOf(text).all[k].done}

\* done_task was called with a query that matches exactly one not-done task.
UniqueMatch ==
    last.op = "done_task" /\ Cardinality(Matching(last.before, last.query)) = 1

\* C2: when the query matches exactly one not-done task, done_task
\* completes and the re-parsed document shows that task done, in the done
\* bucket and in no priority bucket.
C2_ToggleThenParse ==
    UniqueMatch =>
        LET k == CHOOSE m \in Matching(last.before, last.query) : TRUE
            after == ParseOf(content)
        IN  /\ last.outcome = "completed"
            /\ Len(after.all) = Len(ParseOf(last.before).all)
            /\ after.all[k].done
            /\ k \in Range(after.done)
            /\ \A key \in PriorityBuckets : k \notin Range(after[key])

\* The task entries of an archive file.
ArchiveEntries(file) ==
    IF file = Missing THEN 0
    ELSE Cardinality({i \in 1..Len(file) : startswith(file[i], <<"- ", CHECK>>)})

\* C3: when the done bucket is not empty, after archive_done the re-parsed
\* document has an empty done bucket and the archive has gained as many
\* task entries as the done bucket held.
C3_ArchiveThenParse ==
    (last.op = "archive_done" /\ ParseOf(last.before).done # <<>>) =>
        /\ ParseOf(content).done = <<>>
        /\ ArchiveEntries(archive)
              = ArchiveEntries(last.archive_before) + Len(ParseOf(last.before).done)

\* C4: when the query matches exactly one not-done task, done_task changes
\* the checkbox token of the first occurrence of that task's line and
\* nothing else: every other line is as it was, and on re-parse every other
\* task is as it was.
C4_ToggleChangesOneCheckbox ==
    UniqueMatch =>
        LET k == CHOOSE m \in Matching(last.before, last.query) : TRUE
            before == ParseOf(last.before)
            raw == before.all[k].raw_line
            i == Min({n \in 1..Len(last.before) : last.before[n] = raw})
            after == ParseOf(content)
        IN  /\ content = [last.before EXCEPT ![i] = <<"- [x]">> \o Tail(raw)]
            /\ Len(after.all) = Len(before.all)
            /\ \A j \in 1..Len(before.all) : j # k => after.all[j] = before.all[j]

\* No line of the text is a header with the priority's section emoji.
HeaderAbsent(text, priority) ==
    \A i \in 1..Len(text) :
        ~(/\ Len(text[i]) >= 2
          /\ text[i][1] = "## "
          /\ text[i][2] = TargetEmoji(priority))

\* C5: done_task with a query that matches no not-done task, or more than
\* one, and add_task on a document without the target header, report the
\* error and leave the document and the archive as they were.
C5_ErrorsChangeNothing ==
    /\ (last.op = "done_task" /\ Matching(last.before, last.query) = {}) =>
          /\ last.outcome = "no matching task"
          /\ content = last.before /\ archive = last.archive_before
    /\ (last.op = "done_task" /\ Cardinality(Matching(last.before, last.query)) > 1) =>
          /\ last.outcome = "multiple matches"
          /\ content = last.before /\ archive = last.archive_before
    /\ (last.op = "add_task" /\ HeaderAbsent(last.before, last.priority)) =>
          /\ last.outcome = "section not found"
          /\ content = last.before /\ archive = last.archive_before

\* The text has a header line that parse_tasks maps to the bucket.
HasHeaderFor(text, key, personal) ==
    \E i \in 1..Len(text) :
        /\ section_match(text[i], "obsidian")
        /\ mapping_get(personal, text[i][2]) = key

\* C10: add_task reports 'section not found' exactly if no header line of
\* the document is mapped by parse_tasks to the bucket of the priority, and
\* it adds the task whenever there is such a header.
C10_ParserAndMutatorAgree ==
    last.op = "add_task" =>
        LET has == HasHeaderFor(last.before, TargetBucket(last.priority), last.personal)
        IN  /\ (last.outcome = "section not found") <=> ~has
            /\ has => last.outcome = "added"

(* ------------------------------------------------------------------ *)
(* The parser as a function: parse_tasks(content, personal, format)   *)
(* ------------------------------------------------------------------ *)

InitParse ==
    /\ tasks_path = OBSIDIAN_WORK
    /\ content \in ParseDocuments
    /\ archive = Missing
    /\ today \in {toordinal(2026, 1, 15)}
    /\ runs = 0
    /\ last = NoCall

CallParse ==
    /\ runs < MaxRuns
    /\ runs' = runs + 1
    /\ \E personal \in BOOLEAN, format \in {"obsidian", "legacy"} :
          last' = [op |-> "parse_tasks", personal |-> personal,
                   format |-> format,
                   result |-> parse_tasks(content, personal, format, today)]
    /\ UNCHANGED <<tasks_path, content, archive, today>>

NextParse == CallParse

SpecParse == InitParse /\ [][NextParse]_vars

(* ------------------------------------------------------------------ *)
(* Properties of parse_tasks                                          *)
(* ------------------------------------------------------------------ *)

Parsed == last.op = "parse_tasks"

\* The indices of the task lines of a document, in document order.
TaskLineIdx(doc) ==
    LET S == {i \in 1..Len(doc) : task_match(doc[i])}
        RECURSIVE Sorted(_)
        Sorted(T) == IF T = {} THEN <<>>
                     ELSE LET m == CHOOSE x \in T : \A y \in T : x <= y
                          IN  <<m>> \o Sorted(T \ {m})
    IN  Sorted(S)

\* The section emoji of a dialect and their buckets (the specification's
\* vocabulary: the personal dialect has no team section).
DialectEmoji(personal) ==
    {RED, YELLOW, ORANGE, WHITE, CHECK} \cup (IF personal THEN {} ELSE {TEAM})

DialectBucket(emoji) ==
    CASE emoji = RED -> "q1" [] emoji = YELLOW -> "q2" [] emoji = ORANGE -> "q3"
      [] emoji = TEAM -> "team" [] emoji = WHITE -> "backlog" [] emoji = CHECK -> "done"

\* A section header the dialect recognizes: the heading marker, one emoji of
\* the dialect's set, a space and a name.
RecognizedHeader(line, personal) ==
    /\ Len(line) >= 4
    /\ line[1] = "## "
    /\ line[2] \in DialectEmoji(personal)
    /\ line[3] = " "

\* The bucket of the nearest recognized header above line i, if any.
NearestSection(doc, i, personal) ==
    LET H == {j \in 1..(i - 1) : RecognizedHeader(doc[j], personal)}
    IN  IF H = {} THEN NoSection
        ELSE DialectBucket(doc[CHOOSE j \in H : \A k \in H : k <= j][2])

\* A list of indices is in document order.
InOrder(s) == \A i, j \in 1..Len(s) : i < j => s[i] < s[j]

\* C6: in the default format every task's section is the bucket of the
\* nearest preceding header that the active dialect recognizes (a header
\* that is not recognized leaves the section as it was, a task above every
\* recognized header has none), and every bucket lists its tasks in
\* document order.
C6_SectionIsNearestRecognizedHeader ==
    (Parsed /\ last.format = "obsidian") =>
        LET idx == TaskLineIdx(content)
            res == last.result
        IN  /\ Len(res.all) = Len(idx)
            /\ \A k \in 1..Len(idx) :
                  res.all[k].section = NearestSection(content, idx[k], last.personal)
            /\ \A key \in {"q1", "q2", "q3", "team", "backlog", "done"} :
                  InOrder(res[key])

\* dict.get(key): the value of a key of a task record, None when it has none.
dict_get(task, key) == IF key \in DOMAIN task THEN task[key] ELSE None

\* The values of the continuation lines with the given key among lines
\* from..to of a document, in order.
RECURSIVE MetaValues(_, _, _, _)
MetaValues(doc, from, to, key) ==
    IF from > to THEN <<>>
    ELSE LET line == doc[from]
             here == IF /\ startswith(line, <<"  - ">>)
                        /\ Len(line) >= 2
                        /\ lower(line[2]) = key
                     THEN <<strip(SubSeq(line, 3, Len(line)))>>
                     ELSE <<>>
         IN  here \o MetaValues(doc, from + 1, to, key)

\* C7: in both formats, beneath a task line (up to the next task line) a
\* 'due:' line sets due unless an inline date did, the last 'blocks:' line
\* sets blocks, and the first 'owner:' line sets owner.
C7_ContinuationSemantics ==
    Parsed =>
        LET idx == TaskLineIdx(content)
            res == last.result
        IN  \A k \in 1..Len(idx) :
              LET to == IF k < Len(idx) THEN idx[k + 1] - 1 ELSE Len(content)
                  line == content[idx[k]]
                  rest == strip(SubSeq(line, title_end(line) + 1, Len(line)))
                  inline == inline_due(rest, last.format)
                  D == MetaValues(content, idx[k] + 1, to, "due:")
                  B == MetaValues(content, idx[k] + 1, to, "blocks:")
                  O == MetaValues(content, idx[k] + 1, to, "owner:")
                  t == res.all[k]
              IN  (\A j \in (idx[k] + 1)..to : ~startswith(content[j], <<"## ">>)) =>
                    /\ Truthy(inline) => t.due = inline
                    /\ (~Truthy(inline) /\ D # <<>>) => t.due = D[1]
                    /\ B # <<>> => dict_get(t, "blocks") = B[Len(B)]
                    /\ O # <<>> => dict_get(t, "owner") = O[1]

\* C9: after parse_tasks a task is in the done bucket exactly if its done
\* flag is true.
C9_DoneBucketIffDoneFlag ==
    Parsed =>
        \A k \in 1..Len(last.result.all) :
            (k \in Range(last.result.done)) <=> last.result.all[k].done

(* ------------------------------------------------------------------ *)
(* The due predicate as a function: check_due_date(due, check_type)   *)
(* ------------------------------------------------------------------ *)

\* The due strings the predicate is called with: None, '', every date-shaped
\* token (some are no calendar date) and free text.
DueStrings ==
    {None, <<>>, <<"ASAP">>, <<"next", " ", "Friday">>}
        \cup {<<d>> : d \in DateShaped}

CheckTypes == {"today", "this-week", "overdue", "someday"}

InitDue ==
    /\ tasks_path = OBSIDIAN_WORK
    /\ content = <<BLANK>>
    /\ archive = Missing
    /\ today \in Clock
    /\ runs = 0
    /\ last = NoCall

CallDue ==
    /\ runs < MaxRuns
    /\ runs' = runs + 1
    /\ \E due \in DueStrings, check_type \in CheckTypes :
          last' = [op |-> "check_due_date", due |-> due,
                   check_type |-> check_type,
                   ret |-> check_due_date(due, check_type, today)]
    /\ UNCHANGED <<tasks_path, content, archive, today>>

NextDue == CallDue

SpecDue == InitDue /\ [][NextDue]_vars

\* 2026-01-18 is a Sunday; the Sunday that ends the week of day `ord` is the
\* one Sunday among the seven days that start with it.
IsSunday(ord) == (ord - toordinal(2026, 1, 18)) % 7 = 0
SundayOfWeek(ord) == CHOOSE s \in ord..(ord + 6) : IsSunday(s)

\* C8: for a due that is a calendar date, 'today' is due <= today,
\* 'this-week' is due <= the Sunday ending today's week and 'overdue' is
\* due < today; an empty due gives true for 'today' and false for every
\* other kind; a non-empty due that is no date gives false for every kind.
C8_CheckDueDate ==
    last.op = "check_due_date" =>
        LET due == last.due
            kind == last.check_type
        IN  /\ ~Truthy(due) => (last.ret <=> kind = "today")
            /\ (Truthy(due) /\ strptime_fails(due)) => ~last.ret
            /\ (Truthy(due) /\ ~strptime_fails(due)) =>
                  LET d == strptime_date(due)
                  IN  /\ kind = "today" => (last.ret <=> d <= today)
                      /\ kind = "this-week" => (last.ret <=> d <= SundayOfWeek(today))
                      /\ kind = "overdue" => (last.ret <=> d < today)

\* A this-week check accepts a date after today and on or before Sunday,
\* on a day that is not itself the Sunday.
C8_Witness ==
    /\ last.op = "check_due_date"
    /\ last.check_type = "this-week"
    /\ last.ret
    /\ ~strptime_fails(last.due)
    /\ strptime_date(last.due) > today
    /\ ~IsSunday(today)

(* ------------------------------------------------------------------ *)
(* The entry add_task builds, read back by parse_tasks                *)
(* ------------------------------------------------------------------ *)

InitInsert ==
    /\ tasks_path \in {OBSIDIAN_WORK, LEGACY_WORK}
    /\ content \in CliDocuments
    /\ archive = Missing
    /\ today = toordinal(2026, 1, 15)
    /\ runs = 0
    /\ last = NoCall

\* Lines 74-98 of add_task as a function of the text and the arguments,
\* where the section is found: the text it builds for write_text, and the
\* parse load_tasks would make of that text.
CallInsert ==
    /\ runs < MaxRuns
    /\ runs' = runs + 1
    /\ \E personal \in BOOLEAN, title \in Titles, priority \in Priorities,
          due \in {None, <<"2026-01-15">>, <<"2026-01-20">>},
          owner \in {<<"me">>, <<"alice">>}, area \in {None, <<"Sales">>} :
          /\ section_hits(content, priority) # {}
          /\ LET new_content ==
                     insert_task(content, priority,
                                 task_entry(title, due, owner, area))
             IN  last' = [op |-> "insert_task", personal |-> personal,
                          title |-> title, priority |-> priority,
                          due |-> due, owner |-> owner, area |-> area,
                          before |-> content, new_content |-> new_content,
                          result |-> parse_tasks(new_content, personal,
                              get_tasks_file(personal, FALSE).format, today)]
    /\ UNCHANGED <<tasks_path, content, archive, today>>

NextInsert == CallInsert

SpecInsert == InitInsert /\ [][NextInsert]_vars

\* The records of a result that can be the added task: not done, with the
\* title given.
AddedRecords(result, title) ==
    {i \in 1..Len(result.all) :
        result.all[i].title = title /\ ~result.all[i].done}

\* C11: parsing the text add_task builds yields a not-done record with the
\* title given whose due is the due date given, if one was given, and whose
\* area is the area given, if one was given; with the due date equal to the
\* current date that record is in the due_today bucket.
C11_FieldRoundTripOnInsert ==
    last.op = "insert_task" =>
        \E i \in AddedRecords(last.result, last.title) :
            /\ Truthy(last.due) => last.result.all[i].due = last.due
            /\ Truthy(last.area) => last.result.all[i].area = last.area
            /\ (Truthy(last.due) /\ strptime_date(last.due) = today)
                  => \E k \in 1..Len(last.result.due_today) :
                        last.result.due_today[k] = i

====
